---- MODULE Spec2Model ----
(***************************************************************************)
(* Batched inference with a molecular property-prediction network:         *)
(* molpal/models/mpnn/predict.py, functions predict and _predict.          *)
(*                                                                         *)
(* A run is one call predict(model, smis, batch_size, ncpu, uncertainty,   *)
(* scaler, use_gpu).  The state is the call's arguments, the model         *)
(* object's mode and device, torch's gradient flag, the locals of predict  *)
(* and _predict, and the value returned or the error raised.  An array is  *)
(* a sequence of rows, a row a sequence of integers; column c of the code  *)
(* (0-based) is position c+1 of a row.                                     *)
(*                                                                         *)
(* ncpu (the loader's worker count) and the progress bar (tqdm, disabled   *)
(* by predict) do not influence any value and are not modelled.            *)
(***************************************************************************)
EXTENDS Integers, Sequences, FiniteSets

\* ------------------------------------------------------------------ bounds

\* Longest list of molecule strings passed to predict.
MaxSmis == 3
\* Largest batch size passed to predict.
MaxBatch == 2
\* Largest output width of the model (columns of one forward pass).
MaxWidth == 4

\* The molecule strings a caller may pass.
Smiles == {"C", "CO"}

\* ------------------------------------------------------------------ state

VARIABLES
    smis,          \* argument: the molecule strings, in the caller's order
    batch_size,    \* argument: the loader's batch size
    uncertainty,   \* argument: whether the model predicts its own uncertainty
    scaler,        \* argument: the StandardScaler, or NoScaler for None
    use_gpu,       \* argument: whether predict moves the model to device 0
    was_training,  \* the model's mode when predict was called
    model,         \* the model object: output width, training flag, device
    grad_enabled,  \* torch's global gradient-tracking flag
    saved_grad,    \* what torch.no_grad() restores on exit
    pc,            \* position in predict / _predict
    test_data,     \* predict's MoleculeDataset: one datapoint per string
    data_loader,   \* the batches the loader has still to yield
    pred_batches,  \* _predict's list of per-batch outputs
    preds,         \* _predict's concatenated array
    means,         \* _predict's means (uncertainty branch)
    variances,     \* _predict's variances (uncertainty branch)
    result,        \* what the call returned or raised
    fwd_log,       \* one entry per forward pass: the batch and the flags then
    scaler_log     \* one entry per use of the scaler: the operation and its argument

vars == <<smis, batch_size, uncertainty, scaler, use_gpu, was_training, model,
          grad_enabled, saved_grad, pc, test_data, data_loader, pred_batches,
          preds, means, variances, result, fwd_log, scaler_log>>

args == <<smis, batch_size, uncertainty, scaler, use_gpu, was_training>>

\* ------------------------------------------------------------------ helpers

Min(a, b) == IF a < b THEN a ELSE b

\* All sequences over S of length 0..n.
SeqsUpTo(S, n) == UNION {[1..k -> S] : k \in 0..n}

\* scaler = None
NoScaler == [present |-> FALSE, means |-> <<>>, stds |-> <<>>]

\* A StandardScaler fit on targets of t tasks: per-task means and standard
\* deviations, different from task to task.
FitScaler(t, m0, s0) ==
    [present |-> TRUE,
     means   |-> [j \in 1..t |-> m0 + 10 * (j - 1)],
     stds    |-> [j \in 1..t |-> s0 + (j - 1)]]

\* The number of columns the scaler is applied to: every column of the output
\* without uncertainty, the mean (and variance) columns with it.
ScaledWidth(unc, w) == IF unc THEN w \div 2 ELSE w

\* The scalers a caller may pass with a model of width w: None, or a scaler
\* fit on the training targets (docstring of _predict), which has one mean and
\* one standard deviation per column it is applied to.  With uncertainty such
\* a scaler exists for a model that emits a (mean, variance) pair per task.
ScalersFor(unc, w) ==
    {NoScaler} \cup
    IF unc /\ w % 2 # 0 THEN {}
    ELSE {FitScaler(ScaledWidth(unc, w), m0, s0) : m0 \in {-3, 7}, s0 \in {2, 3}}

\* The model's raw output row for one molecule: a fixed function of the
\* molecule, distinct from molecule to molecule and column to column.
MolBase(smi) == IF smi = "C" THEN 10 ELSE 20

ModelOutput(smi, w) == [c \in 1..w |-> MolBase(smi) + (c - 1)]

\* MoleculeDatapoint(smiles=[smi])
MoleculeDatapoint(smi) == [smiles |-> <<smi>>]

\* MoleculeDataset([MoleculeDatapoint(smiles=[smi]) for smi in smis])
MoleculeDataset(ss) == [i \in 1..Len(ss) |-> MoleculeDatapoint(ss[i])]

\* MoleculeDataLoader(dataset, batch_size): consecutive batches of batch_size
\* datapoints in dataset order, the last one possibly shorter; no batch for an
\* empty dataset.
RECURSIVE MoleculeDataLoader(_, _)
MoleculeDataLoader(data, bs) ==
    IF data = <<>> THEN <<>>
    ELSE LET k == Min(bs, Len(data))
         IN  <<SubSeq(data, 1, k)>> \o MoleculeDataLoader(SubSeq(data, k + 1, Len(data)), bs)

\* model(batch.batch_graph()).data.cpu().numpy(): one output row per datapoint
\* of the batch.
Forward(m, batch) == [i \in 1..Len(batch) |-> ModelOutput(batch[i].smiles[1], m.width)]

\* np.concatenate of a non-empty list of arrays along axis 0.
RECURSIVE ConcatRows(_)
ConcatRows(batches) ==
    IF batches = <<>> THEN <<>> ELSE Head(batches) \o ConcatRows(Tail(batches))

\* row[start::step] (numpy slicing of one row, start 0-based).
Slice(row, start, step) ==
    [k \in 1..((Len(row) - start + step - 1) \div step) |-> row[start + 1 + (k - 1) * step]]

\* Mutation of SplitMeans: the means taken from the odd columns.
SplitMeansOdd(a) == [i \in 1..Len(a) |-> Slice(a[i], 1, 2)]

\* preds[:, 0::2]
SplitMeans(a) == [i \in 1..Len(a) |-> Slice(a[i], 0, 2)]

\* Mutation of SplitVariances: the slice starts one pair late and loses column 1.
SplitVariancesFromTwo(a) == [i \in 1..Len(a) |-> Slice(a[i], 3, 2)]

\* preds[:, 1::2]
SplitVariances(a) == [i \in 1..Len(a) |-> Slice(a[i], 1, 2)]

\* StandardScaler.inverse_transform(X) = X * stds + means, column by column.
InverseTransform(sc, a) ==
    [i \in 1..Len(a) |-> [j \in 1..Len(a[i]) |-> a[i][j] * sc.stds[j] + sc.means[j]]]

\* Mutation of ScaleVariances: the standard deviation is not squared.
ScaleVariancesByStd(sc, a) ==
    [i \in 1..Len(a) |-> [j \in 1..Len(a[i]) |-> sc.stds[j] * a[i][j]]]

\* scaler.stds**2 * variances
ScaleVariances(sc, a) ==
    [i \in 1..Len(a) |-> [j \in 1..Len(a[i]) |-> sc.stds[j] * sc.stds[j] * a[i][j]]]

\* Mutation of UncertaintyBranch: the branch also taken for a paired output.
BranchOnPairedWidth == uncertainty \/ model.width % 2 = 0

\* `if uncertainty:`
UncertaintyBranch == uncertainty

\* `if scaler:`
ScalerGiven == scaler.present

NoResult == [kind |-> "none", a |-> <<>>, b |-> <<>>]

\* ------------------------------------------------------------------ Init

Init ==
    /\ smis \in SeqsUpTo(Smiles, MaxSmis)
    /\ batch_size \in 1..MaxBatch
    /\ uncertainty \in BOOLEAN
    /\ use_gpu \in BOOLEAN
    /\ was_training \in BOOLEAN
    /\ \E w \in 1..MaxWidth :
          /\ model = [width |-> w, training |-> was_training, device |-> "cpu"]
          /\ scaler \in ScalersFor(uncertainty, w)
    /\ grad_enabled \in BOOLEAN
    /\ saved_grad = grad_enabled
    /\ pc = "predict"
    /\ test_data = <<>>
    /\ data_loader = <<>>
    /\ pred_batches = <<>>
    /\ preds = <<>>
    /\ means = <<>>
    /\ variances = <<>>
    /\ result = NoResult
    /\ fwd_log = <<>>
    /\ scaler_log = <<>>

\* ------------------------------------------------------------------ actions

\* predict, lines 12-20: move the model, build the dataset and the loader,
\* then call _predict.
Predict ==
    /\ pc = "predict"
    /\ model' = [model EXCEPT !.device = IF use_gpu THEN "cuda:0" ELSE @]
    /\ test_data' = MoleculeDataset(smis)
    /\ data_loader' = MoleculeDataLoader(MoleculeDataset(smis), batch_size)
    /\ pc' = "eval"
    /\ UNCHANGED <<args, grad_enabled, saved_grad, pred_batches, preds, means,
                   variances, result, fwd_log, scaler_log>>

\* _predict, lines 65-67: model.eval(); pred_batches = []
ModelEval ==
    /\ pc = "eval"
    /\ model' = [model EXCEPT !.training = FALSE]
    /\ pred_batches' = <<>>
    /\ pc' = "no_grad"
    /\ UNCHANGED <<args, grad_enabled, saved_grad, test_data, data_loader, preds,
                   means, variances, result, fwd_log, scaler_log>>

\* Mutation of EnterNoGrad: the with block is entered with the flag left as it was.
EnterNoGradKeepsFlag ==
    /\ pc = "no_grad"
    /\ saved_grad' = grad_enabled
    /\ pc' = "loop"
    /\ UNCHANGED <<args, model, grad_enabled, test_data, data_loader, pred_batches,
                   preds, means, variances, result, fwd_log, scaler_log>>

\* line 68: with torch.no_grad(): remember the flag and clear it.
EnterNoGrad ==
    /\ pc = "no_grad"
    /\ saved_grad' = grad_enabled
    /\ grad_enabled' = FALSE
    /\ pc' = "loop"
    /\ UNCHANGED <<args, model, test_data, data_loader, pred_batches, preds, means,
                   variances, result, fwd_log, scaler_log>>

\* Mutation of ForwardBatch: the batch's output is put in front of the list.
ForwardBatchPrepends ==
    /\ pc = "loop"
    /\ data_loader # <<>>
    /\ LET batch == Head(data_loader)
       IN  /\ pred_batches' = <<Forward(model, batch)>> \o pred_batches
           /\ fwd_log' = Append(fwd_log, [batch    |-> batch,
                                          grad     |-> grad_enabled,
                                          training |-> model.training,
                                          device   |-> model.device])
    /\ data_loader' = Tail(data_loader)
    /\ UNCHANGED <<args, model, grad_enabled, saved_grad, pc, test_data, preds,
                   means, variances, result, scaler_log>>

\* lines 69-73: one iteration of the loop over the loader.
ForwardBatch ==
    /\ pc = "loop"
    /\ data_loader # <<>>
    /\ LET batch == Head(data_loader)
       IN  /\ pred_batches' = Append(pred_batches, Forward(model, batch))
           /\ fwd_log' = Append(fwd_log, [batch    |-> batch,
                                          grad     |-> grad_enabled,
                                          training |-> model.training,
                                          device   |-> model.device])
    /\ data_loader' = Tail(data_loader)
    /\ UNCHANGED <<args, model, grad_enabled, saved_grad, pc, test_data, preds,
                   means, variances, result, scaler_log>>

\* Mutation of ExitNoGrad: the model's earlier mode is restored after the loop.
ExitNoGradRestoresMode ==
    /\ pc = "loop"
    /\ data_loader = <<>>
    /\ grad_enabled' = saved_grad
    /\ model' = [model EXCEPT !.training = was_training]
    /\ pc' = "concat"
    /\ UNCHANGED <<args, saved_grad, test_data, data_loader, pred_batches,
                   preds, means, variances, result, fwd_log, scaler_log>>

\* The loader is exhausted: leave the with block, which restores the flag.
ExitNoGrad ==
    /\ pc = "loop"
    /\ data_loader = <<>>
    /\ grad_enabled' = saved_grad
    /\ pc' = "concat"
    /\ UNCHANGED <<args, model, saved_grad, test_data, data_loader, pred_batches,
                   preds, means, variances, result, fwd_log, scaler_log>>

\* Mutation of Concatenate: an empty list gives an empty array, not an error.
ConcatenateEmptyOk ==
    /\ pc = "concat"
    /\ preds' = ConcatRows(pred_batches)
    /\ pc' = "branch"
    /\ UNCHANGED <<args, model, grad_enabled, saved_grad, test_data, data_loader,
                   pred_batches, means, variances, result, fwd_log, scaler_log>>

\* line 74: preds = np.concatenate(pred_batches); np.concatenate raises
\* ValueError for an empty list.
Concatenate ==
    /\ pc = "concat"
    /\ IF pred_batches = <<>>
       THEN /\ result' = [kind |-> "ValueError", a |-> <<>>, b |-> <<>>]
            /\ pc' = "raised"
            /\ UNCHANGED preds
       ELSE /\ preds' = ConcatRows(pred_batches)
            /\ pc' = "branch"
            /\ UNCHANGED result
    /\ UNCHANGED <<args, model, grad_enabled, saved_grad, test_data, data_loader,
                   pred_batches, means, variances, fwd_log, scaler_log>>

\* lines 76-78: the uncertainty branch splits the columns.
SplitColumns ==
    /\ pc = "branch"
    /\ UncertaintyBranch
    /\ means' = SplitMeans(preds)
    /\ variances' = SplitVariances(preds)
    /\ pc' = "scale_pair"
    /\ UNCHANGED <<args, model, grad_enabled, saved_grad, test_data, data_loader,
                   pred_batches, preds, result, fwd_log, scaler_log>>

\* Mutation of ScalePair: no `if scaler:` guard, so scaler = None raises
\* AttributeError at scaler.inverse_transform.
ScalePairUnguarded ==
    /\ pc = "scale_pair"
    /\ IF scaler.present
       THEN /\ means' = InverseTransform(scaler, means)
            /\ variances' = ScaleVariances(scaler, variances)
            /\ scaler_log' = scaler_log \o
                   << [op |-> "inverse_transform", arg |-> means],
                      [op |-> "stds**2", arg |-> variances] >>
            /\ pc' = "return_pair"
            /\ UNCHANGED result
       ELSE /\ result' = [kind |-> "AttributeError", a |-> <<>>, b |-> <<>>]
            /\ pc' = "raised"
            /\ UNCHANGED <<means, variances, scaler_log>>
    /\ UNCHANGED <<args, model, grad_enabled, saved_grad, test_data, data_loader,
                   pred_batches, preds, fwd_log>>

\* lines 80-82: de-normalise the means and the variances.
ScalePair ==
    /\ pc = "scale_pair"
    /\ IF ScalerGiven
       THEN /\ means' = InverseTransform(scaler, means)
            /\ variances' = ScaleVariances(scaler, variances)
            /\ scaler_log' = scaler_log \o
                   << [op |-> "inverse_transform", arg |-> means],
                      [op |-> "stds**2", arg |-> variances] >>
       ELSE UNCHANGED <<means, variances, scaler_log>>
    /\ pc' = "return_pair"
    /\ UNCHANGED <<args, model, grad_enabled, saved_grad, test_data, data_loader,
                   pred_batches, preds, result, fwd_log>>

\* line 84: return means, variances
ReturnPair ==
    /\ pc = "return_pair"
    /\ result' = [kind |-> "pair", a |-> means, b |-> variances]
    /\ pc' = "returned"
    /\ UNCHANGED <<args, model, grad_enabled, saved_grad, test_data, data_loader,
                   pred_batches, preds, means, variances, fwd_log, scaler_log>>

\* Mutation of InverseScale: the scaler is never applied.
InverseScaleSkipped ==
    /\ pc = "branch"
    /\ ~UncertaintyBranch
    /\ pc' = "return_preds"
    /\ UNCHANGED <<args, model, grad_enabled, saved_grad, test_data, data_loader,
                   pred_batches, preds, means, variances, result, fwd_log, scaler_log>>

\* lines 86-88: without uncertainty, de-normalise the whole array.
InverseScale ==
    /\ pc = "branch"
    /\ ~UncertaintyBranch
    /\ IF ScalerGiven
       THEN /\ preds' = InverseTransform(scaler, preds)
            /\ scaler_log' = Append(scaler_log, [op |-> "inverse_transform", arg |-> preds])
       ELSE UNCHANGED <<preds, scaler_log>>
    /\ pc' = "return_preds"
    /\ UNCHANGED <<args, model, grad_enabled, saved_grad, test_data, data_loader,
                   pred_batches, means, variances, result, fwd_log>>

\* line 90: return preds
ReturnPreds ==
    /\ pc = "return_preds"
    /\ result' = [kind |-> "array", a |-> preds, b |-> <<>>]
    /\ pc' = "returned"
    /\ UNCHANGED <<args, model, grad_enabled, saved_grad, test_data, data_loader,
                   pred_batches, preds, means, variances, fwd_log, scaler_log>>

Next ==
    \/ Predict
    \/ ModelEval
    \/ EnterNoGrad
    \/ ForwardBatch
    \/ ExitNoGrad
    \/ Concatenate
    \/ SplitColumns
    \/ ScalePair
    \/ ReturnPair
    \/ InverseScale
    \/ ReturnPreds

Spec == Init /\ [][Next]_vars

\* ------------------------------------------------------------------ properties

N == Len(smis)
M == model.width

\* The raw model output of the whole input, row i for the i-th string.
RawRows == [i \in 1..N |-> ModelOutput(smis[i], M)]

\* The row-wise concatenation of the raw per-batch outputs collected so far.
RawConcat == ConcatRows(pred_batches)

Returned == pc = "returned"
Raised == pc = "raised"

\* Every row of array a has exactly k columns.
HasColumns(a, k) == \A i \in 1..Len(a) : Len(a[i]) = k

InverseTransformCalls == {k \in 1..Len(scaler_log) : scaler_log[k].op = "inverse_transform"}

\* C1: with uncertainty = false and a scaler, the call returns one array (not
\* a pair) of N rows and M columns, equal to scaler.inverse_transform of the
\* row-wise concatenation of the raw per-batch outputs.
C1_SingleScaledArray ==
    (Returned /\ ~uncertainty /\ scaler.present) =>
        /\ result.kind = "array"
        /\ result.b = <<>>
        /\ Len(result.a) = N
        /\ HasColumns(result.a, M)
        /\ result.a = InverseTransform(scaler, RawConcat)
        /\ \A i \in 1..N : \A j \in 1..M :
              result.a[i][j] = RawRows[i][j] * scaler.stds[j] + scaler.means[j]

C1_Witness ==
    /\ Returned /\ ~uncertainty /\ scaler.present
    /\ Len(pred_batches) >= 2 /\ M >= 2
    /\ result.a # RawConcat

C3_VarianceScaledByStdSquared ==
    (Returned /\ uncertainty /\ scaler.present) =>
        LET rawMeans == [i \in 1..N |-> [j \in 1..(M \div 2) |-> RawRows[i][2 * j - 1]]]
            rawVars  == [i \in 1..N |-> [j \in 1..(M \div 2) |-> RawRows[i][2 * j]]]
        IN  /\ result.b = [i \in 1..N |-> [j \in 1..(M \div 2) |->
                              scaler.stds[j] * scaler.stds[j] * rawVars[i][j]]]
            /\ result.a = InverseTransform(scaler, rawMeans)
            /\ Cardinality(InverseTransformCalls) = 1
            /\ \A k \in InverseTransformCalls :
                  scaler_log[k].arg = rawMeans /\ scaler_log[k].arg # rawVars

C3_Witness ==
    /\ Returned /\ uncertainty /\ scaler.present
    /\ M = 4 /\ N >= 2 /\ scaler.means[1] # 0
    /\ result.b # InverseTransform(scaler, SplitVariances(RawRows))

\* C4: the scaler is optional: scaler = None raises nothing (only an empty
\* input does) and nothing is de-normalised: without uncertainty the result is
\* exactly the concatenated raw output, with uncertainty the means and
\* variances are exactly the raw even-indexed and odd-indexed columns.
C4_NoScalerNoDenormalisation ==
    /\ (Raised /\ ~scaler.present) => N = 0
    /\ (Returned /\ ~scaler.present) =>
          /\ scaler_log = <<>>
          /\ ~uncertainty => result.a = RawRows /\ result.a = RawConcat
          /\ uncertainty =>
                /\ result.a = [i \in 1..N |-> [j \in 1..((M + 1) \div 2) |-> RawRows[i][2 * j - 1]]]
                /\ result.b = [i \in 1..N |-> [j \in 1..(M \div 2) |-> RawRows[i][2 * j]]]

C4_Witness ==
    /\ Returned /\ ~scaler.present /\ uncertainty
    /\ M = 3 /\ N >= 2 /\ Len(pred_batches) >= 2

PastEval == pc \notin {"predict", "eval"}
PastConcat == pc \in {"branch", "scale_pair", "return_pair", "return_preds", "returned"}

\* C5: the steps run in a fixed order: the model is in eval mode at every
\* forward pass, every forward pass runs with gradient tracking disabled, the
\* scaler is used only after all batches have been concatenated, and
\* inverse_transform is applied exactly once, to an array holding a row for
\* every input (never to a single batch).
C5_FixedOrder ==
    /\ \A k \in 1..Len(fwd_log) : ~fwd_log[k].training /\ ~fwd_log[k].grad
    /\ fwd_log # <<>> => PastEval
    /\ PastConcat =>
          /\ data_loader = <<>>
          /\ Len(pred_batches) = Len(MoleculeDataLoader(test_data, batch_size))
    /\ scaler_log # <<>> => PastConcat /\ pc # "branch"
    /\ \A k \in 1..Len(scaler_log) : Len(scaler_log[k].arg) = N
    /\ Cardinality(InverseTransformCalls) <= 1
    /\ (Returned /\ scaler.present) => Cardinality(InverseTransformCalls) = 1

C5_Witness ==
    /\ Returned /\ scaler.present /\ was_training
    /\ Len(fwd_log) >= 2 /\ saved_grad
    /\ Cardinality(InverseTransformCalls) = 1

\* What the post-processing makes of one raw row.
ExpectedMeansRow(row) ==
    LET m == Slice(row, 0, 2)
    IN  IF scaler.present
        THEN [j \in 1..Len(m) |-> m[j] * scaler.stds[j] + scaler.means[j]]
        ELSE m

ExpectedVariancesRow(row) ==
    LET v == Slice(row, 1, 2)
    IN  IF scaler.present
        THEN [j \in 1..Len(v) |-> scaler.stds[j] * scaler.stds[j] * v[j]]
        ELSE v

ExpectedPredsRow(row) ==
    IF scaler.present
    THEN [j \in 1..Len(row) |-> row[j] * scaler.stds[j] + scaler.means[j]]
    ELSE row

\* C6: predict builds one datapoint per input string (duplicates and order
\* kept), every batch the loader yields goes through the model exactly once,
\* and the outputs are concatenated in the loader's order: the result has N
\* rows and row i is made from the model's output for the i-th string.
C6_OneRowPerInputInOrder ==
    /\ PastEval =>
          /\ Len(test_data) = N
          /\ \A i \in 1..N : test_data[i] = [smiles |-> <<smis[i]>>]
    /\ Returned =>
          /\ [k \in 1..Len(fwd_log) |-> fwd_log[k].batch]
                = MoleculeDataLoader(test_data, batch_size)
          /\ Len(pred_batches) = Len(fwd_log)
          /\ \A k \in 1..Len(fwd_log) : Len(pred_batches[k]) = Len(fwd_log[k].batch)
          /\ RawConcat = RawRows
          /\ Len(result.a) = N
          /\ IF uncertainty
             THEN /\ Len(result.b) = N
                  /\ \A i \in 1..N :
                        /\ result.a[i] = ExpectedMeansRow(ModelOutput(smis[i], M))
                        /\ result.b[i] = ExpectedVariancesRow(ModelOutput(smis[i], M))
             ELSE \A i \in 1..N : result.a[i] = ExpectedPredsRow(ModelOutput(smis[i], M))

C6_Witness ==
    /\ Returned /\ N = 3 /\ batch_size = 2
    /\ smis[1] = smis[3] /\ smis[1] # smis[2]
    /\ Len(fwd_log) = 2 /\ Len(result.a) = 3

C8_EmptyInputRaises ==
    /\ N = 0 => fwd_log = <<>> /\ pred_batches = <<>> /\ scaler_log = <<>>
    /\ (N = 0 /\ pc \notin {"predict", "eval", "no_grad", "loop", "concat"}) =>
          /\ Raised
          /\ result.kind = "ValueError"
    /\ Returned => N > 0
    /\ Raised => result.kind = "ValueError" /\ scaler_log = <<>>

C8_Witness ==
    /\ Raised /\ N = 0 /\ uncertainty /\ result.kind = "ValueError"

C10_ModelLeftInEvalMode ==
    PastEval => ~model.training

C10_Witness ==
    /\ Returned /\ was_training /\ ~model.training

====
